---------------------------- MODULE Spec2Model ----------------------------
(***************************************************************************)
(* Model of namd_xtb.py, the NAMD <-> xtb QM/MM bridge.                    *)
(*                                                                         *)
(* Text is modelled at two levels.  A file the script READS (the step      *)
(* file, charges, gradient) is the sequence of its lines as                *)
(* readlines()/strip()/split() see them: a line is a sequence of tokens, a *)
(* token a sequence of one-character strings, a blank line the empty       *)
(* sequence.  A file the script WRITES (xtbxyz.xyz, pcharge, the .result   *)
(* file) is the flat sequence of the characters written.                   *)
(*                                                                         *)
(* A float is an exact decimal [sg, n, s] = sg * n / 10^s (sign kept apart *)
(* so that -0.0 prints as "-0.000000", as Python prints it).  Binary       *)
(* rounding of doubles is not modelled; the inputs drawn are short         *)
(* decimals whose products are far from a rounding tie at 6 places.        *)
(***************************************************************************)
EXTENDS Integers, Sequences, FiniteSets, TLC

(***************************************************************************)
(* Bounds of the model.                                                    *)
(***************************************************************************)
MaxAtoms == 2
MaxPC == 1
MaxDrop == 3

(***************************************************************************)
(* Characters, int(), float(), str() and '{:.6f}'.format()                 *)
(***************************************************************************)
Digits == <<"0", "1", "2", "3", "4", "5", "6", "7", "8", "9">>

IsDigit(c) == \E d \in 1..10 : Digits[d] = c

DigitVal(c) == (CHOOSE d \in 1..10 : Digits[d] = c) - 1

RECURSIVE Pow10(_)
Pow10(k) == IF k = 0 THEN 1 ELSE 10 * Pow10(k - 1)

\* number of consecutive digit characters of tok starting at position i
RECURSIVE DigitRun(_, _)
DigitRun(tok, i) ==
    IF i <= Len(tok) /\ IsDigit(tok[i]) THEN 1 + DigitRun(tok, i + 1) ELSE 0

\* value of the k digit characters of tok starting at position i
RECURSIVE NatOf(_, _, _)
NatOf(tok, i, k) ==
    IF k = 0 THEN 0
    ELSE 10 * NatOf(tok, i, k - 1) + DigitVal(tok[i + k - 1])

\* the decimal digits of a natural number, most significant first
RECURSIVE NatChars(_)
NatChars(n) ==
    IF n < 10 THEN <<Digits[n + 1]>>
    ELSE Append(NatChars(n \div 10), Digits[(n % 10) + 1])

\* str(i) for a Python int
IntStr(i) == IF i < 0 THEN <<"-">> \o NatChars(0 - i) ELSE NatChars(i)

\* the k low decimal digits of n, zero padded
RECURSIVE PadChars(_, _)
PadChars(n, k) ==
    IF k = 0 THEN <<>>
    ELSE Append(PadChars(n \div 10, k - 1), Digits[(n % 10) + 1])

Bad == [ok |-> FALSE]

\* int(tok): optional sign, then at least one digit, nothing else
ParseInt(tok) ==
    LET sl == IF Len(tok) > 0 /\ tok[1] \in {"+", "-"} THEN 1 ELSE 0
        k  == DigitRun(tok, sl + 1)
    IN  IF k > 0 /\ sl + k = Len(tok)
        THEN [ok |-> TRUE,
              v  |-> IF sl = 1 /\ tok[1] = "-"
                     THEN 0 - NatOf(tok, sl + 1, k) ELSE NatOf(tok, sl + 1, k)]
        ELSE Bad

\* canonical form of a decimal: no trailing zero in the fraction
RECURSIVE Norm(_)
Norm(x) ==
    IF x.n = 0 THEN [x EXCEPT !.s = 0]
    ELSE IF x.s > 0 /\ x.n % 10 = 0
         THEN Norm([x EXCEPT !.n = x.n \div 10, !.s = x.s - 1])
         ELSE x

Zero == [sg |-> 1, n |-> 0, s |-> 0]

\* 1 when position i of tok holds a sign
SignLen(tok, i) == IF i <= Len(tok) /\ tok[i] \in {"+", "-"} THEN 1 ELSE 0

\* digits [. digits] from position i: digits seen, digits after the point,
\* the digits' value, the position after
Mantissa(tok, i) ==
    LET after(k1, k2) ==
            [nd  |-> k1 + k2,
             k2  |-> k2,
             n   |-> NatOf(tok, i, k1) * Pow10(k2) + NatOf(tok, i + k1 + 1, k2),
             end |-> i + k1 + k2
                     + (IF i + k1 <= Len(tok) /\ tok[i + k1] = "." THEN 1 ELSE 0)]
        point(k1) ==
            after(k1, IF i + k1 <= Len(tok) /\ tok[i + k1] = "."
                      THEN DigitRun(tok, i + k1 + 1) ELSE 0)
    IN  point(DigitRun(tok, i))

\* [(E|e) [sign] digits] from position i
Exponent(tok, i) ==
    LET ex == i <= Len(tok) /\ tok[i] \in {"E", "e"}
        digits(sl, k) ==
            [ok  |-> ex => k > 0,
             neg |-> sl = 1 /\ tok[i + 1] = "-",
             e   |-> NatOf(tok, i + 1 + sl, k),
             end |-> IF ex THEN i + 1 + sl + k ELSE i]
        sign(sl) == digits(sl, IF ex THEN DigitRun(tok, i + 1 + sl) ELSE 0)
    IN  sign(IF ex THEN SignLen(tok, i + 1) ELSE 0)

\* float(tok): [sign] digits [. digits] [(E|e) [sign] digits], with at least
\* one mantissa digit
ParseFloat(tok) ==
    LET sg == IF SignLen(tok, 1) = 1 /\ tok[1] = "-" THEN 0 - 1 ELSE 1
        value(m, x) ==
            IF m.nd > 0 /\ x.ok /\ x.end = Len(tok) + 1
            THEN [ok |-> TRUE,
                  v  |-> Norm([sg |-> sg,
                               n  |-> IF x.neg \/ x.e <= m.k2 THEN m.n
                                      ELSE m.n * Pow10(x.e - m.k2),
                               s  |-> IF x.neg THEN m.k2 + x.e
                                      ELSE IF x.e <= m.k2 THEN m.k2 - x.e ELSE 0])]
            ELSE Bad
        exponent(m) == value(m, Exponent(tok, m.end))
    IN  exponent(Mantissa(tok, SignLen(tok, 1) + 1))

\* x * k for a Python int k
MulInt(x, k) ==
    Norm([sg |-> IF k < 0 THEN 0 - x.sg ELSE x.sg,
          n  |-> x.n * (IF k < 0 THEN 0 - k ELSE k),
          s  |-> x.s])

\* x * y
MulDec(x, y) == Norm([sg |-> x.sg * y.sg, n |-> x.n * y.n, s |-> x.s + y.s])

\* '{:.6f}'.format(x): round half to even at the sixth decimal
Fmt6(x) ==
    LET text(ip, q) ==
            (IF x.sg < 0 THEN <<"-">> ELSE <<>>)
            \o NatChars(IF q = 1000000 THEN ip + 1 ELSE ip) \o <<".">>
            \o PadChars(IF q = 1000000 THEN 0 ELSE q, 6)
        round(q, r, half) ==
            text(x.n \div Pow10(x.s),
                 IF x.s > 6 /\ (r > half \/ (r = half /\ q % 2 = 1))
                 THEN q + 1 ELSE q)
        digits(fr) ==
            round(IF x.s <= 6 THEN fr * Pow10(6 - x.s) ELSE fr \div Pow10(x.s - 6),
                  IF x.s <= 6 THEN 0 ELSE fr % Pow10(x.s - 6),
                  IF x.s <= 6 THEN 1 ELSE 5 * Pow10(x.s - 7))
    IN  digits(x.n % Pow10(x.s))

\* s.replace('D', 'E')
ReplaceDE(tok) == [k \in DOMAIN tok |-> IF tok[k] = "D" THEN "E" ELSE tok[k]]

(***************************************************************************)
(* Unit conversion constants                                               *)
(***************************************************************************)
\* (variant: the factor to one more digit, 1.889726)
BohrPerAngstromLonger == [sg |-> 1, n |-> 1889726, s |-> 6]

\* 1.88973, Angstrom -> Bohr
BohrPerAngstrom == [sg |-> 1, n |-> 188973, s |-> 5]

\* 630, Hartree -> kcal/mol
HartreeToKcal == 630

(***************************************************************************)
(* Small sequence helpers                                                  *)
(***************************************************************************)
Min(a, b) == IF a < b THEN a ELSE b

\* concatenation of the first k elements of a sequence of sequences
RECURSIVE Cat(_, _)
Cat(ss, k) == IF k = 0 THEN <<>> ELSE Cat(ss, k - 1) \o ss[k]

Flatten(ss) == Cat(ss, Len(ss))

\* the non-blank lines of a file, in order
RECURSIVE NonBlank(_)
NonBlank(lines) ==
    IF lines = <<>> THEN <<>>
    ELSE IF Len(Head(lines)) = 0 THEN NonBlank(Tail(lines))
         ELSE <<Head(lines)>> \o NonBlank(Tail(lines))

\* element[i] of a line the loop never reached stays None
None == <<>>

Zero4 == <<Zero, Zero, Zero, Zero>>

(***************************************************************************)
(* read_namdinput                                                          *)
(***************************************************************************)
\* float() of the first three fields succeeds
Floats3(l) == \A i \in 1..3 : i <= Len(l) /\ ParseFloat(l[i]).ok

read_namdinput(lines) ==
    LET atomOk(k) == Floats3(lines[k]) /\ Len(lines[k]) >= 4
        pcOk(k)   == /\ Len(lines[k]) >= 4
                     /\ ParseFloat(lines[k][4]).ok
                     /\ Floats3(lines[k])
        bohr(tok) == MulDec(ParseFloat(tok).v, BohrPerAngstrom)
        body(atom_num, pcharge_num) ==
            IF /\ \A k \in 2..Min(Len(lines), atom_num + 1) : atomOk(k)
               /\ \A k \in (atom_num + 2)..Min(Len(lines), 1 + atom_num + pcharge_num) :
                     pcOk(k)
            THEN [ok |-> TRUE,
                  element |-> [i \in 1..atom_num |->
                                 IF i + 1 <= Len(lines) THEN lines[i + 1][4]
                                 ELSE None],
                  coor |-> [i \in 1..atom_num |->
                              IF i + 1 <= Len(lines)
                              THEN [c \in 1..3 |-> ParseFloat(lines[i + 1][c]).v]
                              ELSE <<Zero, Zero, Zero>>],
                  pcharge |-> [j \in 1..pcharge_num |->
                                 IF atom_num + 1 + j <= Len(lines)
                                 THEN <<ParseFloat(lines[atom_num + 1 + j][4]).v,
                                        bohr(lines[atom_num + 1 + j][1]),
                                        bohr(lines[atom_num + 1 + j][2]),
                                        bohr(lines[atom_num + 1 + j][3])>>
                                 ELSE Zero4]]
            ELSE Bad
        header(cn, cm) ==
            IF ~cn.ok \/ ~cm.ok THEN Bad
            ELSE IF cn.v < 0 \/ cm.v < 0 THEN Bad    \* np.zeros of a negative size
            ELSE body(cn.v, cm.v)
    IN  IF Len(lines) = 0 THEN Bad      \* return of unbound names
        ELSE header(IF Len(lines[1]) >= 1 THEN ParseInt(lines[1][1]) ELSE Bad,
                    IF Len(lines[1]) >= 2 THEN ParseInt(lines[1][2]) ELSE Bad)

(***************************************************************************)
(* write_xtbinput                                                          *)
(***************************************************************************)
\* '{}'.format(e) of an element entry
ElementStr(e) == IF e = None THEN <<"N", "o", "n", "e">> ELSE e

XyzLine(e, c) ==
    ElementStr(e) \o <<" ">> \o Fmt6(c[1]) \o <<" ">> \o Fmt6(c[2])
                  \o <<" ">> \o Fmt6(c[3]) \o <<"\n">>

Row4(r) ==
    Fmt6(r[1]) \o <<" ">> \o Fmt6(r[2]) \o <<" ">> \o Fmt6(r[3])
               \o <<" ">> \o Fmt6(r[4]) \o <<"\n">>

write_xtbinput(element, coor, pcharge) ==
    [xyz |-> IntStr(Len(element)) \o <<"\n", "\n">>
             \o Flatten([i \in 1..Len(element) |-> XyzLine(element[i], coor[i])]),
     pc  |-> IntStr(Len(pcharge)) \o <<"\n">>
             \o Flatten([i \in 1..Len(pcharge) |-> Row4(pcharge[i])])]

(***************************************************************************)
(* read_xtboutput                                                          *)
(***************************************************************************)
\* float(line.strip()) of a non-blank line of the charges file
ChargeOf(l) == IF Len(l) = 1 THEN ParseFloat(l[1]) ELSE Bad

\* (variant: the gradient lines directly after the energy line)
GradLineOfNoCoordinates(atom_num, i) == 2 + i

\* the gradient file line that fills info[i], counted from 1
GradLineOf(atom_num, i) == atom_num + 2 + i

\* float(data[c].replace('D','E')) * (-630) * 1.88973
ForceOf(tok) ==
    MulDec(MulInt(ParseFloat(ReplaceDE(tok)).v, 0 - HartreeToKcal), BohrPerAngstrom)

read_xtboutput(charge_lines, grad_lines) ==
    LET gradOk(l) == \A c \in 1..3 : c <= Len(l) /\ ParseFloat(ReplaceDE(l[c])).ok
        force(l, q) == <<ForceOf(l[1]), ForceOf(l[2]), ForceOf(l[3]), q>>
        body(nb, atom_num) ==
            IF /\ Len(grad_lines) >= 2          \* else energy is unbound
               /\ Len(grad_lines[2]) >= 7
               /\ ParseFloat(grad_lines[2][7]).ok
               /\ \A i \in 1..atom_num :
                     GradLineOf(atom_num, i) <= Len(grad_lines)
                        => gradOk(grad_lines[GradLineOf(atom_num, i)])
            THEN [ok |-> TRUE,
                  energy |-> MulInt(ParseFloat(grad_lines[2][7]).v, HartreeToKcal),
                  info |-> [i \in 1..atom_num |->
                              IF GradLineOf(atom_num, i) <= Len(grad_lines)
                              THEN force(grad_lines[GradLineOf(atom_num, i)],
                                         ChargeOf(nb[i]).v)
                              ELSE Zero4]]
            ELSE Bad
        charges(nb) ==
            IF \E k \in 1..Len(nb) : ~ChargeOf(nb[k]).ok THEN Bad
            ELSE body(nb, Len(nb))
    IN  charges(NonBlank(charge_lines))

(***************************************************************************)
(* write_namdoutput                                                        *)
(***************************************************************************)
write_namdoutput(energy, info) ==
    Fmt6(energy) \o <<"\n">> \o Flatten([i \in 1..Len(info) |-> Row4(info[i])])

(***************************************************************************)
(* The files the environment provides: the driver's step file and the      *)
(* engine's result files, in the layouts the readers above expect.         *)
(***************************************************************************)
Tok0 == <<"0", ".", "0">>

\* "x y z element" of atom i; atoms 1 and 2 are those of the end-to-end example
AtomLine(i) ==
    IF i = 1 THEN <<Tok0, Tok0, Tok0, <<"H">>>>
    ELSE IF i = 2 THEN <<Tok0, Tok0, <<"1", ".", "0">>, <<"H">>>>
    ELSE <<NatChars(i) \o <<".", "5">>, <<"-">> \o NatChars(i) \o <<".", "0">>,
           <<"0", ".">> \o NatChars(i), <<"O">>>>

\* "x y z magnitude" of point charge j; the first is that of the example
PCLine(j) ==
    IF j = 1 THEN <<Tok0, Tok0, <<"2", ".", "0">>, <<"0", ".", "5">>>>
    ELSE <<<<"-">> \o NatChars(j) \o <<".", "0">>, <<"0", ".", "5">>,
           NatChars(j) \o <<".", "5">>, <<"-", "0", ".", "8">>>>

Shapes == {"ok", "short", "fewfields", "badcount"}

\* a step file declaring n atoms and m point charges
StepFile(n, m, shape) ==
    LET body == [k \in 1..(n + m) |-> IF k <= n THEN AtomLine(k) ELSE PCLine(k - n)]
        hdr  == IF shape = "badcount"
                THEN <<IntStr(n), IntStr(m) \o <<".", "0">>>>
                ELSE <<IntStr(n), IntStr(m)>>
    IN  <<hdr>> \o
        (IF shape = "short" /\ n + m > 0 THEN SubSeq(body, 1, n + m - 1)
         ELSE IF shape = "fewfields" /\ n + m > 0
              THEN [body EXCEPT ![n + m] = SubSeq(body[n + m], 1, 3)]
              ELSE body)

StepFiles ==
    {StepFile(n, m, sh) : n \in 0..MaxAtoms, m \in 0..MaxPC, sh \in Shapes}

\* the step files the driver writes from step to step: the QM region stays
\* the same (one atom), the point charges around it vary, and the file is
\* well formed or not
LaunchFiles == {StepFile(1, m, sh) : m \in 0..MaxPC, sh \in Shapes}

\* the end-to-end example: "2 1\n0.0 0.0 0.0 H\n0.0 0.0 1.0 H\n0.0 0.0 2.0 0.5\n"
ExampleStep == StepFile(2, 1, "ok")

\* the engine's charges file for n atoms: one charge per line, q_i = +-0.i,
\* after a blank line or not
EngineCharges(n, blank) ==
    (IF blank THEN <<<<>>>> ELSE <<>>) \o
    [i \in 1..n |->
       <<(IF i % 2 = 0 THEN <<"-">> ELSE <<>>) \o <<"0", ".">> \o NatChars(i)>>]

GradTok(i, c) ==
    (IF (i + c) % 2 = 0 THEN <<"-">> ELSE <<>>)
    \o NatChars(i) \o <<".">> \o NatChars(c) \o <<"D", "-", "0", "2">>

\* the engine's gradient file for n atoms: "$grad", the energy line, n
\* coordinate lines, n gradient lines
EngineGradient(n) ==
    << <<<<"$", "g", "r", "a", "d">>>>,
       <<<<"c", "y", "c", "l", "e">>, <<"=">>, <<"1">>, <<"S", "C", "F">>,
         <<"e", "n", "e", "r", "g", "y">>, <<"=">>,
         <<"-">> \o NatChars(n) \o <<".", "5">>,
         <<"|", "d", "E", "|">>, <<"=">>, <<"0", ".", "0", "1">>>> >>
    \o [i \in 1..n |-> <<Tok0, Tok0, NatChars(i) \o <<".", "9">>, <<"h">>>>]
    \o [i \in 1..n |-> <<GradTok(i, 1), GradTok(i, 2), GradTok(i, 3)>>]

\* the gradient file with its last d lines missing
Truncated(lines, d) ==
    SubSeq(lines, 1, IF d < Len(lines) THEN Len(lines) - d ELSE 0)

(***************************************************************************)
(* State                                                                   *)
(***************************************************************************)
VARIABLES
    QMCHARGE,   \* the charge of each independent QM part (line 33)
    segment,    \* path.split('/')[-1]: last segment of the step file's directory
    fs,         \* the files of that directory
    pc,         \* where run_qmmm is
    qmpart,     \* run_qmmm's qmpart
    energy,     \* read_xtboutput's results
    info,
    removed,    \* the scratch files os.remove has deleted in this step
    err,        \* the stage at which the step raised
    log         \* what the step has done so far

vars == <<QMCHARGE, segment, fs, pc, qmpart, energy, info, removed, err, log>>

NoFile == [exists |-> FALSE, data |-> <<>>]

File(d) == [exists |-> TRUE, data |-> d]

\* (variant: the restart marker is not removed)
ScratchOrderNoRestart == <<"xtbxyz", "pcharge", "charges", "gradient">>

\* xtbxyz, xtbpcfile, xtbcharges, xtbgrad, xtbrestart in the order removed
ScratchOrder == <<"xtbxyz", "pcharge", "charges", "gradient", "xtbrestart">>

ChargeTables == {<<0>>, <<1, 0 - 2>>}

\* "-2", ..., "2", a name that is no number, and the empty segment of a
\* step file given without a directory
Segments == {IntStr(k) : k \in (0 - 2)..2} \cup {<<"x">>, <<>>}

NoLog == [atoms |-> 0, wrote_input |-> FALSE, invoked |-> FALSE,
          charge_arg |-> <<>>, exit_code |-> 0, wrote_result |-> FALSE]

EmptyDir == [step |-> NoFile, xtbxyz |-> NoFile, pcharge |-> NoFile,
             charges |-> NoFile, gradient |-> NoFile, xtbrestart |-> NoFile,
             result |-> NoFile]

Init ==
    /\ QMCHARGE \in ChargeTables
    /\ segment \in Segments
    /\ fs = EmptyDir
    /\ pc = "idle"
    /\ qmpart = 0
    /\ energy = Zero
    /\ info = <<>>
    /\ removed = <<>>
    /\ err = "none"
    /\ log = NoLog

(***************************************************************************)
(* Actions                                                                 *)
(***************************************************************************)
\* (variant: the scratch files are removed on every exit path)
FailWithCleanup(stage) ==
    /\ pc' = "failed"
    /\ err' = stage
    /\ fs' = [f \in DOMAIN fs |-> IF f \in {"step", "result"} THEN fs[f] ELSE NoFile]
    /\ UNCHANGED <<QMCHARGE, segment, qmpart, energy, info, removed, log>>

\* an uncaught exception ends the process; nothing is cleaned up
Fail(stage) ==
    /\ pc' = "failed"
    /\ err' = stage
    /\ UNCHANGED <<QMCHARGE, segment, fs, qmpart, energy, info, removed, log>>

\* the driver writes a step file and starts the script on it
Launch ==
    /\ pc \in {"idle", "done", "failed"}
    /\ \E f \in LaunchFiles : fs' = [fs EXCEPT !.step = File(f)]
    /\ pc' = "paths"
    /\ qmpart' = 0
    /\ energy' = Zero
    /\ info' = <<>>
    /\ removed' = <<>>
    /\ err' = "none"
    /\ log' = NoLog
    /\ UNCHANGED <<QMCHARGE, segment>>

\* qmpart = int(path.split('/')[-1])
DerivePaths ==
    /\ pc = "paths"
    /\ LET r == ParseInt(segment)
       IN  IF r.ok
           THEN /\ qmpart' = r.v
                /\ pc' = "convert_input"
                /\ UNCHANGED <<QMCHARGE, segment, fs, energy, info, removed, err, log>>
           ELSE Fail("paths")

\* convert_input(directory, xtbxyz, xtbpcfile)
ConvertInput ==
    /\ pc = "convert_input"
    /\ LET written(r, w) ==
               /\ fs' = [fs EXCEPT !.xtbxyz = File(w.xyz), !.pcharge = File(w.pc)]
               /\ log' = [log EXCEPT !.wrote_input = TRUE,
                                     !.atoms = Len(r.element)]
               /\ pc' = "call"
               /\ UNCHANGED <<QMCHARGE, segment, qmpart, energy, info, removed, err>>
           read(r) ==
               IF r.ok THEN written(r, write_xtbinput(r.element, r.coor, r.pcharge))
               ELSE Fail("convert_input")
       IN  read(read_namdinput(fs.step.data))

\* (variant: an index past the end wraps around instead of raising)
LookupWrap(list, k) == [ok |-> TRUE, v |-> list[(k % Len(list)) + 1]]

\* list[k] in Python: a negative k counts from the end, and a k outside
\* -len..len-1 raises IndexError
Lookup(list, k) ==
    IF 0 <= k /\ k < Len(list) THEN [ok |-> TRUE, v |-> list[k + 1]]
    ELSE IF 0 - Len(list) <= k /\ k < 0
         THEN [ok |-> TRUE, v |-> list[Len(list) + k + 1]]
         ELSE Bad

\* what one run of the engine may leave behind: each result file rewritten
\* for the atoms of xtbxyz.xyz (the gradient possibly cut short) or left as it
\* was, a restart marker or none, any exit code
EngineRun ==
    \E ch \in {"keep", "write"}, gr \in {"keep", "write"},
       d \in 0..MaxDrop, rs \in BOOLEAN, rc \in {0, 1} :
        /\ fs' = [fs EXCEPT
                    !.charges = IF ch = "keep" THEN @
                                ELSE File(EngineCharges(log.atoms, TRUE)),
                    !.gradient = IF gr = "keep" THEN @
                                 ELSE File(Truncated(EngineGradient(log.atoms), d)),
                    !.xtbrestart = IF rs THEN File(<<>>) ELSE @]
        /\ log' = [log EXCEPT !.invoked = TRUE,
                              !.charge_arg = IntStr(Lookup(QMCHARGE, qmpart).v),
                              !.exit_code = rc]
        /\ pc' = "convert_output"
        /\ UNCHANGED <<QMCHARGE, segment, qmpart, energy, info, removed, err>>

\* subprocess.call([XTBDIR, xtbxyz, '-grad', '-charge', str(QMCHARGE[qmpart])])
CallEngine ==
    /\ pc = "call"
    /\ IF Lookup(QMCHARGE, qmpart).ok
       THEN \/ EngineRun
            \/ Fail("call")        \* XTBDIR cannot be executed: OSError
       ELSE Fail("call")           \* IndexError

\* convert_output(xtbcharges, xtbgrad, namdoutput)
ConvertOutput ==
    /\ pc = "convert_output"
    /\ LET read(r) ==
               IF r.ok
               THEN /\ energy' = r.energy
                    /\ info' = r.info
                    /\ fs' = [fs EXCEPT
                                !.result = File(write_namdoutput(r.energy, r.info))]
                    /\ log' = [log EXCEPT !.wrote_result = TRUE]
                    /\ pc' = "cleanup"
                    /\ UNCHANGED <<QMCHARGE, segment, qmpart, removed, err>>
               ELSE Fail("convert_output")
       IN  IF fs.charges.exists /\ fs.gradient.exists
           THEN read(read_xtboutput(fs.charges.data, fs.gradient.data))
           ELSE Fail("convert_output")

\* (variant: a scratch file that is absent is skipped)
RemoveIfExists ==
    /\ pc = "cleanup"
    /\ LET f == ScratchOrder[Len(removed) + 1]
       IN  /\ fs' = [fs EXCEPT ![f] = NoFile]
           /\ removed' = Append(removed, f)
           /\ pc' = IF Len(removed) + 1 = Len(ScratchOrder) THEN "done"
                    ELSE "cleanup"
           /\ UNCHANGED <<QMCHARGE, segment, qmpart, energy, info, err, log>>

\* os.remove of the next scratch file, lines 193-197
Remove ==
    /\ pc = "cleanup"
    /\ LET f == ScratchOrder[Len(removed) + 1]
       IN  IF fs[f].exists
           THEN /\ fs' = [fs EXCEPT ![f] = NoFile]
                /\ removed' = Append(removed, f)
                /\ pc' = IF Len(removed) + 1 = Len(ScratchOrder) THEN "done"
                         ELSE "cleanup"
                /\ UNCHANGED <<QMCHARGE, segment, qmpart, energy, info, err, log>>
           ELSE Fail("cleanup")

Next ==
    \/ Launch
    \/ DerivePaths
    \/ ConvertInput
    \/ CallEngine
    \/ ConvertOutput
    \/ Remove

Spec == Init /\ [][Next]_vars

(***************************************************************************)
(* The two conversions on their own: convert_input on every step file of   *)
(* the bounds, convert_output on every pair of engine result files.        *)
(***************************************************************************)
ChargesFiles == {EngineCharges(k, b) : k \in 0..MaxAtoms, b \in BOOLEAN}

GradientFiles ==
    {Truncated(EngineGradient(n), d) : n \in 0..MaxAtoms, d \in 0..MaxDrop}

InitConvert ==
    /\ QMCHARGE = <<0>>
    /\ segment = <<"0">>
    /\ qmpart = 0
    /\ energy = Zero
    /\ info = <<>>
    /\ removed = <<>>
    /\ err = "none"
    /\ log = NoLog
    /\ \/ /\ pc = "convert_input"
          /\ \E f \in StepFiles : fs = [EmptyDir EXCEPT !.step = File(f)]
       \/ /\ pc = "convert_output"
          /\ \E c \in ChargesFiles, g \in GradientFiles :
                fs = [EmptyDir EXCEPT !.charges = File(c), !.gradient = File(g)]

NextConvert ==
    \/ ConvertInput
    \/ ConvertOutput

SpecConvert == InitConvert /\ [][NextConvert]_vars

(***************************************************************************)
(* Properties                                                              *)
(***************************************************************************)
\* the pieces of a text between the occurrences of the character sep (what
\* follows the last one counts when it is not empty)
SplitOn(text, sep) ==
    LET at     == {k \in 1..Len(text) : text[k] = sep}
        pos(j) == IF j = 0 THEN 0
                  ELSE CHOOSE p \in at : Cardinality({q \in at : q < p}) = j - 1
        r      == Cardinality(at)
        rest   == SubSeq(text, pos(r) + 1, Len(text))
    IN  [j \in 1..r |-> SubSeq(text, pos(j - 1) + 1, pos(j) - 1)]
        \o (IF rest = <<>> THEN <<>> ELSE <<rest>>)

TextLines(text) == SplitOn(text, "\n")

TextFields(line) == SplitOn(line, " ")

\* a number printed with exactly six decimals
SixDecimals(tok) == Len(tok) >= 8 /\ tok[Len(tok) - 6] = "."

FiveScratchFiles == {"xtbxyz", "pcharge", "charges", "gradient", "xtbrestart"}

FiveInOrder == <<"xtbxyz", "pcharge", "charges", "gradient", "xtbrestart">>

\* the stages before the cleanup
EarlyStages == {"paths", "convert_input", "call", "convert_output"}

RegionId == ParseInt(segment)

\* C1: when a step has completed, none of the five scratch files exists and
\* the driver result file exists and is not empty
C1_CleanupInvariant ==
    pc = "done" =>
        /\ \A f \in FiveScratchFiles : ~fs[f].exists
        /\ fs.result.exists
        /\ Len(fs.result.data) > 0

C1_Witness ==
    /\ pc = "done"
    /\ log.wrote_result
    /\ removed = FiveInOrder

\* C2: a region id k with 0 <= k < len(QMCHARGE) gives the engine
\* str(QMCHARGE[k]) after -charge; with k >= len(QMCHARGE) the step fails
\* and the engine is never invoked
C2_RegionLookup ==
    RegionId.ok =>
        /\ (0 <= RegionId.v /\ RegionId.v < Len(QMCHARGE) /\ log.invoked)
              => log.charge_arg = IntStr(QMCHARGE[RegionId.v + 1])
        /\ RegionId.v >= Len(QMCHARGE)
              => /\ ~log.invoked
                 /\ pc \in {"idle", "paths", "convert_input", "call", "failed"}
                 /\ pc = "failed" => err \in {"convert_input", "call"}

C2_Witness ==
    /\ RegionId.ok
    /\ RegionId.v >= Len(QMCHARGE)
    /\ pc = "failed"
    /\ err = "call"
    /\ ~log.invoked

\* C3: a region id that parses as a negative integer is fatal: the engine is
\* not invoked and no result file is written
C3_NegativeRegionFatal ==
    (RegionId.ok /\ RegionId.v < 0) =>
        /\ ~log.invoked
        /\ ~log.wrote_result
        /\ pc # "done"

\* a step file with unparsable counts, fewer than 1+N+M lines, or an atom or
\* point-charge line of fewer than four fields
Malformed(lines) ==
    \/ Len(lines) = 0
    \/ Len(lines[1]) < 2
    \/ ~ParseInt(lines[1][1]).ok
    \/ ~ParseInt(lines[1][2]).ok
    \/ LET n == ParseInt(lines[1][1]).v + ParseInt(lines[1][2]).v
       IN  \/ Len(lines) < 1 + n
           \/ \E k \in 2..(1 + n) : Len(lines[k]) < 4

\* C4: on a malformed step file the step writes no engine input, does not
\* invoke the engine and writes no result file
C4_MalformedFatal ==
    (pc # "idle" /\ Malformed(fs.step.data)) =>
        /\ ~log.wrote_input
        /\ ~log.invoked
        /\ ~log.wrote_result

\* C5: a step whose engine run exits nonzero fails and writes no result file
C5_NonzeroExitFatal ==
    (log.invoked /\ log.exit_code # 0) =>
        /\ ~log.wrote_result
        /\ pc # "done"

\* C6: the result written for a step of N atoms has N per-atom entries, and
\* the charge of entry i is the i-th non-blank line of the charges file,
\* however many lines the gradient file has
C6_IndexCorrespondence ==
    (pc = "cleanup" /\ removed = <<>>) =>
        LET q   == NonBlank(fs.charges.data)
            out == TextLines(fs.result.data)
        IN  /\ Len(info) = log.atoms
            /\ Len(out) = 1 + log.atoms
            /\ \A i \in 1..log.atoms :
                 /\ i <= Len(q)
                 /\ info[i][4] = ParseFloat(q[i][1]).v
                 /\ ParseFloat(TextFields(out[i + 1])[4]).v = ParseFloat(q[i][1]).v

\* -630 * 1.88973 = -1190.5299
ForcePerGradient == [sg |-> 0 - 1, n |-> 11905299, s |-> 4]

\* C7 (amended): with N the number of non-blank lines of the charges file,
\* the gradient of atom i is read from line N+2+i of the gradient file (lines
\* N+3..2N+2, after the header, the energy line and N further lines); each
\* of its three fields, D read as E, gives the force -630 * 1.88973 * g
C7_GradientLinesAmended ==
    pc = "cleanup" =>
        LET n == Len(NonBlank(fs.charges.data))
            g == fs.gradient.data
        IN  /\ Len(info) = n
            /\ \A i \in 1..n : n + 2 + i <= Len(g) =>
                 \A c \in 1..3 :
                    info[i][c] =
                       MulDec(ParseFloat(ReplaceDE(g[n + 2 + i][c])).v, ForcePerGradient)

C7_Witness ==
    /\ pc = "cleanup"
    /\ Len(info) = 2
    /\ Len(fs.gradient.data) = 6
    /\ info[2][1] = MulDec(ParseFloat(<<"2", ".", "1", "E", "-", "0", "2">>).v,
                           ForcePerGradient)

\* C7 as stated: the gradient of atom i is read from line 2+i
C7_GradientLinesOriginal ==
    pc = "cleanup" =>
        LET n == Len(NonBlank(fs.charges.data))
            g == fs.gradient.data
        IN  Len(g) = 2 * n + 2 =>
              \A i \in 1..n : \A c \in 1..3 :
                 info[i][c] =
                    MulDec(ParseFloat(ReplaceDE(g[2 + i][c])).v, ForcePerGradient)

\* "2\n\nH 0.000000 0.000000 0.000000\nH 0.000000 0.000000 1.000000\n"
ExampleXyz ==
    <<"2", "\n", "\n", "H", " ", "0", ".", "0", "0", "0", "0", "0", "0",
      " ", "0", ".", "0", "0", "0", "0", "0", "0", " ", "0", ".", "0", "0",
      "0", "0", "0", "0", "\n", "H", " ", "0", ".", "0", "0", "0", "0",
      "0", "0", " ", "0", ".", "0", "0", "0", "0", "0", "0", " ", "1", ".",
      "0", "0", "0", "0", "0", "0", "\n">>

\* "1\n0.500000 0.000000 0.000000 3.779460\n"
ExamplePcharge ==
    <<"1", "\n", "0", ".", "5", "0", "0", "0", "0", "0", " ", "0", ".",
      "0", "0", "0", "0", "0", "0", " ", "0", ".", "0", "0", "0", "0", "0",
      "0", " ", "3", ".", "7", "7", "9", "4", "6", "0", "\n">>

\* "1\n0.500000 0.000000 0.000000 3.779470\n"
ExamplePchargeAsStated ==
    <<"1", "\n", "0", ".", "5", "0", "0", "0", "0", "0", " ", "0", ".",
      "0", "0", "0", "0", "0", "0", " ", "0", ".", "0", "0", "0", "0", "0",
      "0", " ", "3", ".", "7", "7", "9", "4", "7", "0", "\n">>

\* 1.88973
LengthFactor == [sg |-> 1, n |-> 188973, s |-> 5]

\* every input line that is present comes out as the claim says: atoms in
\* input order with their coordinates unconverted, point charges magnitude
\* first and coordinates times 1.88973, all numbers with six decimals
ConvertedAsStated ==
    LET in == fs.step.data
        n  == ParseInt(in[1][1]).v
        m  == ParseInt(in[1][2]).v
        xl == TextLines(fs.xtbxyz.data)
        pl == TextLines(fs.pcharge.data)
    IN  /\ Len(xl) = n + 2
        /\ xl[1] = IntStr(n)
        /\ xl[2] = <<>>
        /\ \A i \in 1..n : i + 1 <= Len(in) =>
             LET f == TextFields(xl[i + 2])
             IN  /\ Len(f) = 4
                 /\ f[1] = in[i + 1][4]
                 /\ \A c \in 1..3 :
                      /\ SixDecimals(f[c + 1])
                      /\ ParseFloat(f[c + 1]).v = ParseFloat(in[i + 1][c]).v
        /\ Len(pl) = m + 1
        /\ pl[1] = IntStr(m)
        /\ \A j \in 1..m : n + 1 + j <= Len(in) =>
             LET f == TextFields(pl[j + 1])
                 l == in[n + 1 + j]
             IN  /\ Len(f) = 4
                 /\ \A c \in 1..4 : SixDecimals(f[c])
                 /\ ParseFloat(f[1]).v = ParseFloat(l[4]).v
                 /\ \A c \in 1..3 :
                      ParseFloat(f[c + 1]).v = MulDec(ParseFloat(l[c]).v, LengthFactor)

\* C8 (amended): convert_input on the example step file writes an
\* atomic-structure file beginning with the stated text and the point-charge
\* file "1\n0.500000 0.000000 0.000000 3.779460\n"; in general every line is
\* converted as stated
C8_ExampleAmended ==
    pc = "call" =>
        /\ ConvertedAsStated
        /\ fs.step.data = ExampleStep =>
             /\ SubSeq(fs.xtbxyz.data, 1, Len(ExampleXyz)) = ExampleXyz
             /\ fs.pcharge.data = ExamplePcharge

C8_Witness ==
    /\ pc = "call"
    /\ fs.step.data = ExampleStep
    /\ fs.xtbxyz.exists
    /\ fs.pcharge.exists

\* C8 as stated: the point-charge file ends in 3.779470
C8_ExampleAsStated ==
    (pc = "call" /\ fs.step.data = ExampleStep) =>
        /\ SubSeq(fs.xtbxyz.data, 1, Len(ExampleXyz)) = ExampleXyz
        /\ fs.pcharge.data = ExamplePchargeAsStated

\* C9: a step that fails before the cleanup removes no scratch file, and the
\* files it leaves (the restart marker among them) are still there when the
\* next step starts
C9_NoCleanupOnFailure ==
    [][(err \in EarlyStages \/ err' \in EarlyStages) =>
          \A f \in FiveScratchFiles : fs[f].exists => fs'[f] = fs[f]]_vars

C9_Witness ==
    /\ pc = "paths"
    /\ fs.xtbrestart.exists
    /\ fs.xtbxyz.exists
    /\ fs.charges.exists

\* the scratch file that a transition deletes, if it deletes one
Deletes(f) == fs[f].exists /\ ~fs'[f].exists

\* C10: a scratch file is deleted only once the result file is complete, in
\* the order xtbxyz.xyz, pcharge, charges, gradient, xtbrestart; a file that is
\* absent when its turn comes fails the step, which leaves the result file,
\* the files before it deleted and the files after it as they were
C10_CleanupOrder ==
    /\ [][/\ \A k \in 1..5 : Deletes(FiveInOrder[k]) =>
                /\ log.wrote_result
                /\ fs.result = File(write_namdoutput(energy, info))
                /\ fs'.result = fs.result
                /\ \A j \in 1..5 : (j < k => ~fs[FiveInOrder[j]].exists)
                                /\ (j > k => fs'[FiveInOrder[j]] = fs[FiveInOrder[j]])
          /\ (pc = "cleanup" /\ ~fs[FiveInOrder[Len(removed) + 1]].exists)
                => (pc' = "failed" /\ err' = "cleanup" /\ fs' = fs)]_vars
    /\ [](pc = "failed" /\ err = "cleanup" =>
            /\ fs.result = File(write_namdoutput(energy, info))
            /\ \A j \in 1..Len(removed) : ~fs[FiveInOrder[j]].exists)

C10_Witness ==
    /\ pc = "failed"
    /\ err = "cleanup"
    /\ removed = <<"xtbxyz", "pcharge", "charges", "gradient">>
    /\ ~fs.xtbrestart.exists
    /\ fs.result.exists
=============================================================================
